---------------------------- MODULE Spec2Model ----------------------------
(***************************************************************************)
(* Model of the Reporting repository:                                      *)
(*   - LogScraper.scrape_log   (src/src/utils/logger.py)                   *)
(*   - CustomLogger.function_call and the module logger's handlers         *)
(*   - process_tag / get_data_from_tag (src/src/tags)                      *)
(*                                                                         *)
(* Python strings are sequences of one-character strings, so that the      *)
(* regular expressions, str.replace, str.strip, str.split, int() and       *)
(* datetime.fromisoformat are computed character by character.             *)
(***************************************************************************)
EXTENDS Integers, Sequences, FiniteSets, TLC

VARIABLES
    files,               \* path -> the lines of the file at that path
    console,             \* the lines console_handler has written
    handler_formatter,   \* handler -> handler.formatter
    log_file_path,       \* LogScraper.log_file_path
    file_before,         \* the scraped file's lines when scrape_log was called
    pc,                  \* position of the scrape_log call
    log_lines,           \* scrape_log's log_lines
    idx,                 \* number of log_lines the for loop has gone through
    parsed_log_entries,  \* scrape_log's parsed_log_entries
    error,               \* the exception that left the running call, or "none"
    tag_stack,           \* the process_tag frames, outermost first
    tag_result,          \* what the outermost process_tag returned
    fc                   \* thread -> its function_call invocation

vars ==
    <<files, console, handler_formatter, log_file_path, file_before, pc, log_lines, idx,
      parsed_log_entries, error, tag_stack, tag_result, fc>>

---------------------------------------------------------------------------
(* Bounds of the model. *)

\* words per line of a single-line log file
MaxWords == 3

\* lines of a log file made of typical lines
MaxLines == 4

\* words per tag string
MaxTagWords == 6

\* depth at which the interpreter raises RecursionError (1000 in CPython)
MaxDepth == 4

\* function_call invocations per thread
MaxCalls == 1

---------------------------------------------------------------------------
(* Characters and Python's None. *)

Digits == {"0", "1", "2", "3", "4", "5", "6", "7", "8", "9"}

UpperCase ==
    {"A", "B", "C", "D", "E", "F", "G", "H", "I", "J", "K", "L", "M",
     "N", "O", "P", "Q", "R", "S", "T", "U", "V", "W", "X", "Y", "Z"}

LowerCase ==
    {"a", "b", "c", "d", "e", "f", "g", "h", "i", "j", "k", "l", "m",
     "n", "o", "p", "q", "r", "s", "t", "u", "v", "w", "x", "y", "z"}

\* what str.strip() removes
Whitespace == {" ", "\t", "\n", "\r", "\f"}

\* None, as a value no string equals (a string holds single characters only)
None == <<"None">>

DigitVal(c) ==
    CASE c = "0" -> 0 [] c = "1" -> 1 [] c = "2" -> 2 [] c = "3" -> 3
      [] c = "4" -> 4 [] c = "5" -> 5 [] c = "6" -> 6 [] c = "7" -> 7
      [] c = "8" -> 8 [] c = "9" -> 9

SetMin(S) == CHOOSE x \in S : \A y \in S : x <= y

SetMax(S) == CHOOSE x \in S : \A y \in S : x >= y

---------------------------------------------------------------------------
(* str methods. *)

\* s starts with old at position i
StartsWithAt(s, old, i) ==
    /\ i + Len(old) - 1 <= Len(s)
    /\ \A k \in 1..Len(old) : s[i + k - 1] = old[k]

\* s.replace(old, new): every non-overlapping occurrence of old, left to right
RECURSIVE replace(_, _, _)
replace(s, old, new) ==
    IF Len(s) < Len(old) \/ old = <<>> THEN s
    ELSE IF StartsWithAt(s, old, 1)
         THEN new \o replace(SubSeq(s, Len(old) + 1, Len(s)), old, new)
         ELSE <<s[1]>> \o replace(Tail(s), old, new)

\* s.strip()
strip(s) ==
    LET keep == {i \in 1..Len(s) : s[i] \notin Whitespace}
    IN IF keep = {} THEN <<>> ELSE SubSeq(s, SetMin(keep), SetMax(keep))

\* s.split(":")
RECURSIVE split(_)
split(s) ==
    LET colons == {i \in 1..Len(s) : s[i] = ":"}
    IN IF colons = {} THEN <<s>>
       ELSE LET i == SetMin(colons)
            IN <<SubSeq(s, 1, i - 1)>> \o split(SubSeq(s, i + 1, Len(s)))

\* int(s) raises ValueError unless s is digits, single underscores between them
\* allowed (the characters FILENAME_LINE_NUMBER_REGEX lets through hold no sign
\* and no whitespace)
IntValid(s) ==
    /\ s # <<>>
    /\ \A i \in 1..Len(s) : s[i] \in Digits \cup {"_"}
    /\ s[1] \in Digits /\ s[Len(s)] \in Digits
    /\ \A i \in 1..(Len(s) - 1) : ~(s[i] = "_" /\ s[i + 1] = "_")

RECURSIVE IntValue(_)
IntValue(s) ==
    IF s = <<>> THEN 0
    ELSE IF s[Len(s)] = "_" THEN IntValue(SubSeq(s, 1, Len(s) - 1))
    ELSE IntValue(SubSeq(s, 1, Len(s) - 1)) * 10 + DigitVal(s[Len(s)])

---------------------------------------------------------------------------
(* Regular expressions of LogScraper. *)

\* one element of a pattern against one character
InClass(c, cls) ==
    CASE cls = "." -> c # "\n"
      [] cls = "[0-9]" -> c \in Digits
      [] cls = "[0-1]" -> c \in {"0", "1"}
      [] cls = "[0-2]" -> c \in {"0", "1", "2"}
      [] cls = "[0-3]" -> c \in {"0", "1", "2", "3"}
      [] cls = "[0-5]" -> c \in {"0", "1", "2", "3", "4", "5"}
      [] OTHER -> c = cls

\* 2[0-9]{3}-[0-1][0-9]-[0-3][0-9] [0-2][0-9]:[0-5][0-9]:[0-5][0-9].[0-9]{3}
TIMESTAMP_REGEX ==
    <<"2", "[0-9]", "[0-9]", "[0-9]", "-", "[0-1]", "[0-9]", "-", "[0-3]", "[0-9]",
      " ", "[0-2]", "[0-9]", ":", "[0-5]", "[0-9]", ":", "[0-5]", "[0-9]", ".",
      "[0-9]", "[0-9]", "[0-9]">>

\* [A-Z]{4,}: the least number of letters
LOG_LEVEL_REGEX == 4

\* the characters of [a-zA-Z0-9_.:]
FILENAME_LINE_NUMBER_REGEX == LowerCase \cup UpperCase \cup Digits \cup {"_", ".", ":"}

NoMatch == [found |-> FALSE, start |-> 0, group |-> <<>>]

\* the length of the longest run of characters of class from position i
RunLength(s, i, class) ==
    LET stops == {j \in i..(Len(s) + 1) : j = Len(s) + 1 \/ s[j] \notin class}
    IN SetMin(stops) - i

\* re.search(TIMESTAMP_REGEX, s): the leftmost match
search_timestamp(s) ==
    LET n == Len(TIMESTAMP_REGEX)
        hits == {i \in 1..Len(s) :
                    /\ i + n - 1 <= Len(s)
                    /\ \A k \in 1..n : InClass(s[i + k - 1], TIMESTAMP_REGEX[k])}
    IN IF hits = {} THEN NoMatch
       ELSE LET i == SetMin(hits)
            IN [found |-> TRUE, start |-> i, group |-> SubSeq(s, i, i + n - 1)]

\* re.search(LOG_LEVEL_REGEX, s): the leftmost run of 4 letters, taken to its end
search_level(s) ==
    LET hits == {i \in 1..Len(s) : RunLength(s, i, UpperCase) >= LOG_LEVEL_REGEX}
    IN IF hits = {} THEN NoMatch
       ELSE LET i == SetMin(hits)
            IN [found |-> TRUE, start |-> i,
                group |-> SubSeq(s, i, i + RunLength(s, i, UpperCase) - 1)]

\* re.match(FILENAME_LINE_NUMBER_REGEX, s): at the start of s only; group is
\* the whole match, groups()[0] is it without its brackets
match_filename_line_number(s) ==
    IF Len(s) >= 3 /\ s[1] = "["
    THEN LET n == RunLength(s, 2, FILENAME_LINE_NUMBER_REGEX)
         IN IF n >= 1 /\ n + 2 <= Len(s) /\ s[n + 2] = "]"
            THEN [found |-> TRUE, start |-> 1, group |-> SubSeq(s, 1, n + 2)]
            ELSE NoMatch
    ELSE NoMatch

---------------------------------------------------------------------------
(* datetime.fromisoformat on a match of TIMESTAMP_REGEX (23 characters:      *)
(* YYYY-MM-DD HH:MM:SS, one character, three digits).                        *)

IsLeap(y) == (y % 4 = 0 /\ y % 100 # 0) \/ y % 400 = 0

DaysInMonth(y, m) ==
    CASE m \in {1, 3, 5, 7, 8, 10, 12} -> 31
      [] m \in {4, 6, 9, 11} -> 30
      [] m = 2 -> IF IsLeap(y) THEN 29 ELSE 28
      [] OTHER -> 0

\* the value datetime.fromisoformat(g) returns
fromisoformat(g) ==
    [year |-> IntValue(SubSeq(g, 1, 4)), month |-> IntValue(SubSeq(g, 6, 7)),
     day |-> IntValue(SubSeq(g, 9, 10)), hour |-> IntValue(SubSeq(g, 12, 13)),
     minute |-> IntValue(SubSeq(g, 15, 16)), second |-> IntValue(SubSeq(g, 18, 19)),
     microsecond |-> IntValue(SubSeq(g, 21, 23)) * 1000]

\* datetime.fromisoformat(g) returns; it raises ValueError otherwise. The pattern
\* lets through months 00 and 13..19, days 00 and 32..39, hours 24..29 and any
\* character before the milliseconds; fromisoformat (Python 3.11 and later)
\* takes "." or "," there.
fromisoformat_valid(g) ==
    LET d == fromisoformat(g)
    IN /\ d.month \in 1..12
       /\ d.day \in 1..DaysInMonth(d.year, d.month)
       /\ d.hour \in 0..23
       /\ g[20] \in {".", ","}

---------------------------------------------------------------------------
(* The module logger: formatter, file_handler, console_handler.             *)

\* "2026-11-01 12:00:00"
ASCTIME_NOW ==
    <<"2","0","2","6","-","1","1","-","0","1"," ","1","2",":","0","0",":","0","0">>

\* "000"
MSECS_NOW ==
    <<"0","0","0">>

\* "INFO"
LEVEL_INFO ==
    <<"I","N","F","O">>

\* "logger.py"
LOGGER_PY ==
    <<"l","o","g","g","e","r",".","p","y">>

\* "208"
LINE_208 ==
    <<"2","0","8">>

\* "214"
LINE_214 ==
    <<"2","1","4">>

\* "233"
LINE_233 ==
    <<"2","3","3">>

\* "59"
LINE_59 ==
    <<"5","9">>

\* "Calling scrape_log"
MSG_CALLING_SCRAPE_LOG ==
    <<"C","a","l","l","i","n","g"," ","s","c","r","a","p","e","_","l","o","g">>

\* "Log read successful. Scraping log."
MSG_READ_SUCCESSFUL ==
    <<"L","o","g"," ","r","e","a","d"," ","s","u","c","c","e","s","s","f","u","l","."," ",
    "S","c","r","a","p","i","n","g"," ","l","o","g",".">>

\* "Log line does not start with timestamp. Assuming traceback found and appending to last record."
MSG_NO_TIMESTAMP ==
    <<"L","o","g"," ","l","i","n","e"," ","d","o","e","s"," ","n","o","t"," ","s","t","a",
    "r","t"," ","w","i","t","h"," ","t","i","m","e","s","t","a","m","p","."," ","A","s","s",
    "u","m","i","n","g"," ","t","r","a","c","e","b","a","c","k"," ","f","o","u","n","d"," ",
    "a","n","d"," ","a","p","p","e","n","d","i","n","g"," ","t","o"," ","l","a","s","t"," ",
    "r","e","c","o","r","d",".">>

\* "Calling "
MSG_CALLING ==
    <<"C","a","l","l","i","n","g"," ">>

\* "process_tag"
PROCESS_TAG ==
    <<"p","r","o","c","e","s","s","_","t","a","g">>

\* "process_tag.py"
PROCESS_TAG_PY ==
    <<"p","r","o","c","e","s","s","_","t","a","g",".","p","y">>

\* "29"
LINE_29 ==
    <<"2","9">>

\* "get_data_from_tag"
GET_DATA_FROM_TAG ==
    <<"g","e","t","_","d","a","t","a","_","f","r","o","m","_","t","a","g">>

\* "get_data_from_tag.py"
GET_DATA_FROM_TAG_PY ==
    <<"g","e","t","_","d","a","t","a","_","f","r","o","m","_","t","a","g",".","p","y">>

\* "14"
LINE_14 ==
    <<"1","4">>

\* "..."
ELLIPSIS ==
    <<".",".",".">>

\* the file file_handler writes to: join(gettempdir(), "reporting.log")
LoggerPath == "reporting.log"

\* any other file
OtherPath == "other.log"

Paths == {LoggerPath, OtherPath}

Handlers == {"file_handler", "console_handler"}

\* WhitespaceRemovingFormatter.MAX_LENGTH
MAX_LENGTH == 10000

\* the module's formatter: "... [%(filename)s:%(lineno)d] %(message)s"
formatter == [temp |-> FALSE, file_name |-> <<>>, line_number |-> <<>>]

\* function_call's temp_formatter: "... [{file_name}:{line_number}] %(message)s"
temp_formatter(file_name, line_number) ==
    [temp |-> TRUE, file_name |-> file_name, line_number |-> line_number]

\* a log record made at filename:lineno with message msg, at level INFO
LogRecord(filename, lineno, msg) ==
    [levelname |-> LEVEL_INFO, filename |-> filename, lineno |-> lineno, msg |-> msg]

\* WhitespaceRemovingFormatter.format under formatter f, and the handler's "\n"
format(f, record) ==
    LET stripped == strip(record.msg)
        msg == IF Len(stripped) > MAX_LENGTH
               THEN SubSeq(stripped, 1, MAX_LENGTH) \o ELLIPSIS
               ELSE stripped
        place == IF f.temp THEN f.file_name \o <<":">> \o f.line_number
                 ELSE record.filename \o <<":">> \o record.lineno
    IN ASCTIME_NOW \o <<".">> \o MSECS_NOW \o <<" ">> \o record.levelname
       \o <<" ", "[">> \o place \o <<"]", " ">> \o msg \o <<"\n">>

\* logger.info(msg): file_handler appends the formatted record to its file
\* (maxBytes=10000000 is never reached here, so the file is not rotated)
FilesAfterInfo(fs, fmts, record) ==
    [fs EXCEPT ![LoggerPath] = Append(@, format(fmts["file_handler"], record))]

\* logger.info(msg): console_handler writes the formatted record
ConsoleAfterInfo(con, fmts, record) ==
    Append(con, format(fmts["console_handler"], record))

---------------------------------------------------------------------------
(* Log files handed to scrape_log.                                          *)

\* "2024-01-15 10:30:00.123"
TS_VALID ==
    <<"2","0","2","4","-","0","1","-","1","5"," ","1","0",":","3","0",":","0","0",".","1",
    "2","3">>

\* "2024-01-15 10:30:01.000"
TS_SECOND ==
    <<"2","0","2","4","-","0","1","-","1","5"," ","1","0",":","3","0",":","0","1",".","0",
    "0","0">>

\* "2024-13-01 10:30:00.123"
TS_MONTH13 ==
    <<"2","0","2","4","-","1","3","-","0","1"," ","1","0",":","3","0",":","0","0",".","1",
    "2","3">>

\* "INFO"
W_INFO ==
    <<"I","N","F","O">>

\* "[app.py:42]"
W_APP42 ==
    <<"[","a","p","p",".","p","y",":","4","2","]">>

\* "[main]"
W_MAIN ==
    <<"[","m","a","i","n","]">>

\* "[a:1:2]"
W_A12 ==
    <<"[","a",":","1",":","2","]">>

\* "[app.py:x]"
W_APPX ==
    <<"[","a","p","p",".","p","y",":","x","]">>

\* "[app.py:]"
W_APPEMPTY ==
    <<"[","a","p","p",".","p","y",":","]">>

\* "Started"
W_STARTED ==
    <<"S","t","a","r","t","e","d">>

\* "Traceback"
W_TRACEBACK ==
    <<"T","r","a","c","e","b","a","c","k">>

\* the words a single-line file is made of (the empty word gives runs of spaces)
Vocabulary ==
    {TS_VALID, TS_MONTH13, W_INFO, W_APP42, W_MAIN, W_A12, W_APPX, W_APPEMPTY,
     W_STARTED, <<>>}

\* " ".join(words)
RECURSIVE Join(_)
Join(words) ==
    IF words = <<>> THEN <<>>
    ELSE IF Len(words) = 1 THEN words[1]
    ELSE words[1] \o <<" ">> \o Join(Tail(words))

\* a line as readlines() gives it: the words and the line break
Line(words) == Join(words) \o <<"\n">>

SingleLineFiles ==
    {<<Line(ws)>> : ws \in UNION {[1..k -> Vocabulary] : k \in 0..MaxWords}}

TypicalLines ==
    {Line(<<TS_VALID, W_INFO, W_APP42, W_STARTED>>),
     Line(<<TS_SECOND, W_STARTED>>),
     Line(<<TS_MONTH13, W_STARTED>>),
     Line(<<W_TRACEBACK>>),
     Line(<<<<>>, W_MAIN>>)}

MultiLineFiles == UNION {[1..k -> TypicalLines] : k \in 0..MaxLines}

LogFiles == SingleLineFiles \cup MultiLineFiles

---------------------------------------------------------------------------
(* LogScraper.scrape_log.                                                    *)

\* a slip AppendEntry could hold: the new entry put first
AppendEntryFirst(entries, entry) == <<entry>> \o entries

\* parsed_log_entries.append({...})
AppendEntry(entries, entry) == Append(entries, entry)

\* a slip AppendTraceback could hold: parsed_log_entries[0] for parsed_log_entries[-1]
AppendTracebackToFirst(entries, log_content) ==
    [entries EXCEPT ![1].traceback = Append(@, log_content)]

\* parsed_log_entries[-1]["traceback"].append(log_content)
AppendTraceback(entries, log_content) ==
    [entries EXCEPT ![Len(entries)].traceback = Append(@, log_content)]

\* the text left once group has been taken out: log_content.replace(group, "").strip()
Remove(log_content, group) == strip(replace(log_content, group, <<>>))

\* One pass of the for loop on a line with a match of TIMESTAMP_REGEX:
\* the exception it raises, or "none" and the entry it appends.
ParseEntry(line) ==
    LET ts == search_timestamp(line)
        content1 == Remove(line, ts.group)
        lv == search_level(content1)
        log_level == IF lv.found THEN lv.group ELSE None
        content2 == IF lv.found THEN Remove(content1, lv.group) ELSE content1
        fl == match_filename_line_number(content2)
        parts == IF fl.found THEN split(SubSeq(fl.group, 2, Len(fl.group) - 1))
                 ELSE <<>>
        log_filename == IF fl.found THEN parts[1] ELSE None
        log_line_number == IF fl.found THEN parts[2] ELSE None
        content3 == IF fl.found THEN Remove(content2, fl.group) ELSE content2
    IN IF ~fromisoformat_valid(ts.group)
       THEN [error |-> "ValueError", entry |-> None]
       \* (log_filename, log_line_number) = ....split(":")
       ELSE IF fl.found /\ Len(parts) # 2
       THEN [error |-> "ValueError", entry |-> None]
       \* int(log_line_number) if log_line_number else 0
       ELSE IF fl.found /\ log_line_number # <<>> /\ ~IntValid(log_line_number)
       THEN [error |-> "ValueError", entry |-> None]
       ELSE [error |-> "none",
             entry |->
                [log_date |-> fromisoformat(ts.group),
                 log_level |-> log_level,
                 log_filename |-> log_filename,
                 log_line_number |->
                    IF fl.found /\ log_line_number # <<>>
                    THEN IntValue(log_line_number) ELSE 0,
                 content |-> content3,
                 traceback |-> <<>>]]

\* logger.info("Calling scrape_log"); readlines(); logger.info("Log read successful...")
ScrapeOpen ==
    /\ pc = "start"
    /\ LET called == FilesAfterInfo(files, handler_formatter,
                        LogRecord(LOGGER_PY, LINE_208, MSG_CALLING_SCRAPE_LOG))
       IN /\ log_lines' = called[log_file_path]
          /\ files' = FilesAfterInfo(called, handler_formatter,
                        LogRecord(LOGGER_PY, LINE_214, MSG_READ_SUCCESSFUL))
    /\ console' =
        ConsoleAfterInfo(
            ConsoleAfterInfo(console, handler_formatter,
                LogRecord(LOGGER_PY, LINE_208, MSG_CALLING_SCRAPE_LOG)),
            handler_formatter, LogRecord(LOGGER_PY, LINE_214, MSG_READ_SUCCESSFUL))
    /\ parsed_log_entries' = <<>>
    /\ idx' = 0
    /\ pc' = "loop"
    /\ UNCHANGED <<handler_formatter, log_file_path, file_before, error,
                   tag_stack, tag_result, fc>>

\* one pass of the for loop on a line without a match of TIMESTAMP_REGEX
ScrapeTraceback ==
    /\ pc = "loop"
    /\ idx < Len(log_lines)
    /\ ~search_timestamp(log_lines[idx + 1]).found
    /\ files' = FilesAfterInfo(files, handler_formatter,
                    LogRecord(LOGGER_PY, LINE_233, MSG_NO_TIMESTAMP))
    /\ console' = ConsoleAfterInfo(console, handler_formatter,
                    LogRecord(LOGGER_PY, LINE_233, MSG_NO_TIMESTAMP))
    /\ IF parsed_log_entries = <<>>
       THEN \* parsed_log_entries[-1] on an empty list
            /\ error' = "IndexError"
            /\ pc' = "failed"
            /\ UNCHANGED <<parsed_log_entries, idx>>
       ELSE /\ parsed_log_entries' =
                AppendTraceback(parsed_log_entries, log_lines[idx + 1])
            /\ idx' = idx + 1
            /\ UNCHANGED <<error, pc>>
    /\ UNCHANGED <<handler_formatter, log_file_path, file_before, log_lines,
                   tag_stack, tag_result, fc>>

\* one pass of the for loop on a line with a match of TIMESTAMP_REGEX
ScrapeEntry ==
    /\ pc = "loop"
    /\ idx < Len(log_lines)
    /\ search_timestamp(log_lines[idx + 1]).found
    /\ LET r == ParseEntry(log_lines[idx + 1])
       IN IF r.error # "none"
          THEN /\ error' = r.error
               /\ pc' = "failed"
               /\ UNCHANGED <<parsed_log_entries, idx>>
          ELSE /\ parsed_log_entries' = AppendEntry(parsed_log_entries, r.entry)
               /\ idx' = idx + 1
               /\ UNCHANGED <<error, pc>>
    /\ UNCHANGED <<files, console, handler_formatter, log_file_path, file_before,
                   log_lines, tag_stack, tag_result, fc>>

\* return parsed_log_entries
ScrapeReturn ==
    /\ pc = "loop"
    /\ idx = Len(log_lines)
    /\ pc' = "done"
    /\ UNCHANGED <<files, console, handler_formatter, log_file_path, file_before,
                   log_lines, idx, parsed_log_entries, error, tag_stack, tag_result, fc>>


---------------------------------------------------------------------------
(* CustomLogger.function_call, one thread at a time.                         *)

\* the handlers in the order of logger.handlers
HandlerList == <<"file_handler", "console_handler">>

\* self.info(f"Calling {func_name}") at logger.py:59
CallingRecord(func_name) == LogRecord(LOGGER_PY, LINE_59, MSG_CALLING \o func_name)

\* the files once function_call, called from func_name at file_name:line_number,
\* has run from its first line to its last with no other thread in between
FilesAfterFunctionCall(fs, func_name, file_name, line_number) ==
    FilesAfterInfo(fs, [h \in Handlers |-> temp_formatter(file_name, line_number)],
                   CallingRecord(func_name))

ConsoleAfterFunctionCall(con, func_name, file_name, line_number) ==
    ConsoleAfterInfo(con, [h \in Handlers |-> temp_formatter(file_name, line_number)],
                     CallingRecord(func_name))

---------------------------------------------------------------------------
(* process_tag and get_data_from_tag. log, imported from src.utils, is taken  *)
(* to be the module's CustomLogger, as log.function_call() needs.            *)

\* the words a tag is made of
TagVocabulary == {<<"[", "[">>, <<"]", "]">>, <<"O">>, <<"I">>}

\* "".join(words)
RECURSIVE Concat(_)
Concat(words) == IF words = <<>> THEN <<>> ELSE words[1] \o Concat(Tail(words))

Tags == {Concat(ws) : ws \in UNION {[1..k -> TagVocabulary] : k \in 0..MaxTagWords}}

\* the data argument: the tag-to-content mapping, which is no string
DATA == <<"data">>

\* re.search(r"\[\[(.*?)\]\]", tag): the leftmost "[[" that a "]]" follows with
\* no line break in between, up to the first such "]]"
search_tag(tag) ==
    LET closes(i) == {j \in (i + 2)..(Len(tag) - 1) :
                        /\ tag[j] = "]" /\ tag[j + 1] = "]"
                        /\ \A k \in (i + 2)..(j - 1) : tag[k] # "\n"}
        hits == {i \in 1..(Len(tag) - 1) :
                    tag[i] = "[" /\ tag[i + 1] = "[" /\ closes(i) # {}}
    IN IF hits = {} THEN NoMatch
       ELSE LET i == SetMin(hits)
            IN [found |-> TRUE, start |-> i,
                group |-> SubSeq(tag, i, SetMin(closes(i)) + 1)]

\* a process_tag call that has just been made
Frame(tag) == [tag |-> tag, pc |-> "call", inner_tag |-> None, value |-> None]

Top == tag_stack[Len(tag_stack)]

\* log.function_call() and the test before the loop; a tag without a marker
\* goes to get_data_from_tag, which logs its own call and returns data
TagCall ==
    /\ tag_stack # <<>>
    /\ Top.pc = "call"
    /\ LET called == FilesAfterFunctionCall(files, PROCESS_TAG, PROCESS_TAG_PY, LINE_29)
           shown == ConsoleAfterFunctionCall(console, PROCESS_TAG, PROCESS_TAG_PY, LINE_29)
       IN IF search_tag(Top.tag).found
          THEN /\ files' = called
               /\ console' = shown
               /\ tag_stack' = [tag_stack EXCEPT ![Len(tag_stack)].pc = "while"]
          ELSE /\ files' = FilesAfterFunctionCall(called, GET_DATA_FROM_TAG,
                                GET_DATA_FROM_TAG_PY, LINE_14)
               /\ console' = ConsoleAfterFunctionCall(shown, GET_DATA_FROM_TAG,
                                GET_DATA_FROM_TAG_PY, LINE_14)
               /\ tag_stack' = [tag_stack EXCEPT ![Len(tag_stack)].pc = "return",
                                                 ![Len(tag_stack)].value = DATA]
    /\ UNCHANGED <<handler_formatter, log_file_path, file_before, pc, log_lines, idx,
                   parsed_log_entries, error, tag_result, fc>>

\* the span the loop takes next: re.search(tag_pattern, tag)[0]
InnerTag(tag) == search_tag(tag).group

\* the loop's test and, on a match, the call process_tag(inner_tag, data);
\* without a match the loop ends and the call returns tag
TagWhile ==
    /\ tag_stack # <<>>
    /\ Top.pc = "while"
    /\ search_tag(Top.tag).found => Len(tag_stack) < MaxDepth
    /\ tag_stack' =
        IF search_tag(Top.tag).found
        THEN Append([tag_stack EXCEPT ![Len(tag_stack)].pc = "wait",
                                      ![Len(tag_stack)].inner_tag = InnerTag(Top.tag)],
                    Frame(InnerTag(Top.tag)))
        ELSE [tag_stack EXCEPT ![Len(tag_stack)].pc = "return",
                               ![Len(tag_stack)].value = Top.tag]
    /\ UNCHANGED <<files, console, handler_formatter, log_file_path, file_before, pc,
                   log_lines, idx, parsed_log_entries, error, tag_result, fc>>

\* the call process_tag(inner_tag, data) at the interpreter's recursion limit
TagRecursionError ==
    /\ tag_stack # <<>>
    /\ Top.pc = "while"
    /\ Len(tag_stack) >= MaxDepth
    /\ search_tag(Top.tag).found
    /\ error' = "RecursionError"
    /\ tag_stack' = <<>>
    /\ UNCHANGED <<files, console, handler_formatter, log_file_path, file_before, pc,
                   log_lines, idx, parsed_log_entries, tag_result, fc>>

\* a call returns: to the program, or to the loop of the call below it, which
\* does tag = tag.replace(inner_tag, inner_content); str.replace raises TypeError
\* when inner_content is no string
TagReturn ==
    /\ tag_stack # <<>>
    /\ Top.pc = "return"
    /\ IF Len(tag_stack) = 1
       THEN /\ tag_result' = Top.value
            /\ tag_stack' = <<>>
            /\ UNCHANGED error
       ELSE LET caller == tag_stack[Len(tag_stack) - 1]
            IN IF Top.value = DATA
               THEN /\ error' = "TypeError"
                    /\ tag_stack' = <<>>
                    /\ UNCHANGED tag_result
               ELSE /\ tag_stack' =
                        Append(SubSeq(tag_stack, 1, Len(tag_stack) - 2),
                               [caller EXCEPT
                                   !.tag = replace(caller.tag, caller.inner_tag, Top.value),
                                   !.pc = "while", !.inner_tag = None])
                    /\ UNCHANGED <<error, tag_result>>
    /\ UNCHANGED <<files, console, handler_formatter, log_file_path, file_before, pc,
                   log_lines, idx, parsed_log_entries, fc>>

---------------------------------------------------------------------------
(* CustomLogger.function_call, called from several threads.                  *)

Threads == {"t1", "t2"}

\* where each thread calls log.function_call() from: func_name, file_name, line_number
CallSite(t) ==
    IF t = "t1" THEN <<PROCESS_TAG, PROCESS_TAG_PY, LINE_29>>
    ELSE <<GET_DATA_FROM_TAG, GET_DATA_FROM_TAG_PY, LINE_14>>

\* a thread outside function_call, having made calls invocations
Outside(calls) ==
    [pc |-> "outside", i |-> 1, calls |-> calls,
     original_formatters |-> [h \in Handlers |-> None]]

\* the frame is inspected and temp_formatter is made
FunctionCallBegin(t) ==
    /\ fc[t].pc = "outside"
    /\ fc[t].calls < MaxCalls
    /\ fc' = [fc EXCEPT ![t].pc = "store", ![t].i = 1, ![t].calls = @ + 1]
    /\ UNCHANGED <<files, console, handler_formatter, log_file_path, file_before, pc,
                   log_lines, idx, parsed_log_entries, error, tag_stack, tag_result>>

\* original_formatters = [(handler, handler.formatter) for handler in self.handlers],
\* one handler at a time
FunctionCallStore(t) ==
    /\ fc[t].pc = "store"
    /\ LET h == HandlerList[fc[t].i]
       IN fc' = [fc EXCEPT
                    ![t].original_formatters[h] = handler_formatter[h],
                    ![t].i = IF fc[t].i = Len(HandlerList) THEN 1 ELSE @ + 1,
                    ![t].pc = IF fc[t].i = Len(HandlerList) THEN "set" ELSE @]
    /\ UNCHANGED <<files, console, handler_formatter, log_file_path, file_before, pc,
                   log_lines, idx, parsed_log_entries, error, tag_stack, tag_result>>

\* for handler in self.handlers: handler.setFormatter(temp_formatter)
FunctionCallSet(t) ==
    /\ fc[t].pc = "set"
    /\ LET h == HandlerList[fc[t].i]
           site == CallSite(t)
       IN handler_formatter' =
            [handler_formatter EXCEPT ![h] = temp_formatter(site[2], site[3])]
    /\ fc' = [fc EXCEPT ![t].i = IF fc[t].i = Len(HandlerList) THEN 1 ELSE @ + 1,
                        ![t].pc = IF fc[t].i = Len(HandlerList) THEN "log" ELSE @]
    /\ UNCHANGED <<files, console, log_file_path, file_before, pc,
                   log_lines, idx, parsed_log_entries, error, tag_stack, tag_result>>

\* self.info(f"Calling {func_name}"): each handler formats with the formatter
\* it holds now
FunctionCallLog(t) ==
    /\ fc[t].pc = "log"
    /\ files' = FilesAfterInfo(files, handler_formatter, CallingRecord(CallSite(t)[1]))
    /\ console' = ConsoleAfterInfo(console, handler_formatter,
                                   CallingRecord(CallSite(t)[1]))
    /\ fc' = [fc EXCEPT ![t].pc = "restore", ![t].i = 1]
    /\ UNCHANGED <<handler_formatter, log_file_path, file_before, pc,
                   log_lines, idx, parsed_log_entries, error, tag_stack, tag_result>>

\* for handler, formatter in original_formatters: handler.setFormatter(formatter);
\* after the last one function_call returns
FunctionCallRestore(t) ==
    /\ fc[t].pc = "restore"
    /\ LET h == HandlerList[fc[t].i]
       IN handler_formatter' =
            [handler_formatter EXCEPT ![h] = fc[t].original_formatters[h]]
    /\ fc' = [fc EXCEPT
                ![t] = IF fc[t].i = Len(HandlerList) THEN Outside(fc[t].calls)
                       ELSE [@ EXCEPT !.i = @ + 1]]
    /\ UNCHANGED <<files, console, log_file_path, file_before, pc,
                   log_lines, idx, parsed_log_entries, error, tag_stack, tag_result>>

---------------------------------------------------------------------------
(* Specifications.                                                           *)

\* the module logger as logger.py leaves it once imported, nothing logged yet
LoggerAtRest ==
    /\ console = <<>>
    /\ handler_formatter = [h \in Handlers |-> formatter]
    /\ fc = [t \in Threads |-> Outside(0)]

NoScrape ==
    /\ files = [q \in Paths |-> <<>>]
    /\ log_file_path = None
    /\ file_before = None
    /\ pc = "none"
    /\ log_lines = None
    /\ idx = 0
    /\ parsed_log_entries = <<>>

NoTag ==
    /\ tag_stack = <<>>
    /\ tag_result = None

\* scrape_log is called on a file: its own logger's file, or another one.
\* (The constructor is spelled _init_, so log_file_path is set on the object
\* by assignment before the call.)
Init ==
    /\ \E f \in LogFiles, p \in Paths :
        /\ files = [q \in Paths |-> IF q = p THEN f ELSE <<>>]
        /\ log_file_path = p
        /\ file_before = f
    /\ pc = "start"
    /\ log_lines = None
    /\ idx = 0
    /\ parsed_log_entries = <<>>
    /\ error = "none"
    /\ LoggerAtRest
    /\ NoTag

Next == ScrapeOpen \/ ScrapeTraceback \/ ScrapeEntry \/ ScrapeReturn

Spec == Init /\ [][Next]_vars

\* process_tag is called on a tag
InitTag ==
    /\ \E tag \in Tags : tag_stack = <<Frame(tag)>>
    /\ tag_result = None
    /\ error = "none"
    /\ LoggerAtRest
    /\ NoScrape

NextTag == TagCall \/ TagWhile \/ TagRecursionError \/ TagReturn

SpecTag == InitTag /\ [][NextTag]_vars

\* the threads call function_call
InitLogger ==
    /\ error = "none"
    /\ LoggerAtRest
    /\ NoScrape
    /\ NoTag

NextLogger ==
    \E t \in Threads :
        \/ FunctionCallBegin(t)
        \/ FunctionCallStore(t)
        \/ FunctionCallSet(t)
        \/ FunctionCallLog(t)
        \/ FunctionCallRestore(t)

SpecLogger == InitLogger /\ [][NextLogger]_vars

---------------------------------------------------------------------------
(* Properties of scrape_log.                                                 *)

\* the lines among the first n of log_lines that hold a match of TIMESTAMP_REGEX
TimestampLines(n) == {i \in 1..n : search_timestamp(log_lines[i]).found}

\* the k-th of them
NthTimestampLine(k) ==
    CHOOSE i \in TimestampLines(idx) :
        Cardinality({j \in TimestampLines(idx) : j <= i}) = k

\* the line that made scrape_log fail
FailingLine == log_lines[idx + 1]

\* C1: after any prefix of the input, there are as many entries as lines of the
\* prefix with a match of the timestamp pattern, and the k-th entry is the one
\* built from the k-th such line: none reordered, duplicated or dropped.
C1_EntriesFollowTimestampLines ==
    /\ Len(parsed_log_entries) = Cardinality(TimestampLines(idx))
    /\ \A k \in 1..Len(parsed_log_entries) :
        LET built == ParseEntry(log_lines[NthTimestampLine(k)])
        IN /\ built.error = "none"
           /\ [parsed_log_entries[k] EXCEPT !.traceback = <<>>] = built.entry

\* scrape_log returned two different entries from a file that also held a line
\* without a timestamp
C1_Witness ==
    /\ pc = "done"
    /\ Len(parsed_log_entries) >= 2
    /\ parsed_log_entries[1].content # parsed_log_entries[2].content
    /\ Len(log_lines) > Len(parsed_log_entries)

\* C2: a line without a timestamp match, met when the output is not empty, makes
\* no entry of its own and goes, in input order, to the traceback of the entry of
\* the nearest timestamp line before it and to no other: the traceback of the
\* k-th entry is the run of lines between the k-th timestamp line and the next
\* one, whatever has been processed since.
C2_TracebackOfNearestEntry ==
    /\ Len(parsed_log_entries) = Cardinality(TimestampLines(idx))
    /\ \A k \in 1..Len(parsed_log_entries) :
        LET last == IF k < Len(parsed_log_entries)
                    THEN NthTimestampLine(k + 1) - 1 ELSE idx
        IN parsed_log_entries[k].traceback =
             SubSeq(log_lines, NthTimestampLine(k) + 1, last)

\* two entries, the second with two different traceback lines
C2_Witness ==
    /\ pc = "done"
    /\ Len(parsed_log_entries) >= 2
    /\ Len(parsed_log_entries[2].traceback) >= 2
    /\ parsed_log_entries[2].traceback[1] # parsed_log_entries[2].traceback[2]
    /\ parsed_log_entries[1].traceback = <<>>

\* C3: a first line without a timestamp match makes the scrape fail with
\* MalformedLogSequence, and no entry is produced.
C3_MalformedLogSequence ==
    (pc = "failed" /\ idx = 0 /\ ~search_timestamp(FailingLine).found)
        => (error = "MalformedLogSequence" /\ parsed_log_entries = <<>>)

\* C4: a line whose timestamp match is no valid date-time makes the scrape fail
\* with TimestampParseError; it is not dropped, not taken as a continuation line
\* and not made into an entry.
C4_TimestampParseError ==
    /\ (pc = "failed" /\ search_timestamp(FailingLine).found
            /\ ~fromisoformat_valid(search_timestamp(FailingLine).group))
        => error = "TimestampParseError"
    /\ \A i \in TimestampLines(idx) :
        fromisoformat_valid(search_timestamp(log_lines[i]).group)

\* C5: once scrape_log has returned, the scraped file holds what it held when
\* scrape_log was called, also when it is the file the logger writes to.
C5_ScrapedFileUnchanged ==
    pc = "done" => files[log_file_path] = file_before

\* C6: file/line extraction never makes the scrape fail (a line with a valid
\* timestamp always gives an entry), source_line is a non-negative integer, and
\* source_file is unset with source_line 0 unless the text left starts with a
\* bracketed token holding exactly one colon and a number part of digits.
C6_FileLineNeverFails ==
    /\ (pc = "failed" /\ search_timestamp(FailingLine).found)
        => ~fromisoformat_valid(search_timestamp(FailingLine).group)
    /\ \A k \in 1..Len(parsed_log_entries) :
        /\ parsed_log_entries[k].log_line_number >= 0
        /\ parsed_log_entries[k].log_filename = None
            => parsed_log_entries[k].log_line_number = 0

\* the text left when only the matched occurrence is taken out of log_content
RemoveMatch(log_content, m) ==
    strip(SubSeq(log_content, 1, m.start - 1)
          \o SubSeq(log_content, m.start + Len(m.group), Len(log_content)))

\* the content of a line when each extraction removes its own match only
ContentRemovingMatchesOnly(line) ==
    LET content1 == RemoveMatch(line, search_timestamp(line))
        lv == search_level(content1)
        content2 == IF lv.found THEN RemoveMatch(content1, lv) ELSE content1
        fl == match_filename_line_number(content2)
    IN IF fl.found THEN RemoveMatch(content2, fl) ELSE content2

\* C9: each extraction removes only the occurrence it matched, so the content of
\* an entry is its line without the leftmost timestamp, the leftmost level token
\* and the bracketed token at the start of what is left; later occurrences stay.
C9_OnlyMatchedOccurrenceRemoved ==
    \A k \in 1..Len(parsed_log_entries) :
        parsed_log_entries[k].content =
            ContentRemovingMatchesOnly(log_lines[NthTimestampLine(k)])

---------------------------------------------------------------------------
(* Properties of process_tag.                                                *)

\* tag holds "[[" somewhere from position i on
OpensFrom(tag, i) ==
    \E j \in i..(Len(tag) - 1) : tag[j] = "[" /\ tag[j + 1] = "["

\* C7: process_tag terminates: every recursive call is made on a strictly
\* smaller tag than its caller's, no call ends in RecursionError, and what is
\* returned holds no marker.
C7_ProcessTagTerminates ==
    /\ error # "RecursionError"
    /\ \A d \in 2..Len(tag_stack) : Len(tag_stack[d].tag) < Len(tag_stack[d - 1].tag)
    /\ ~search_tag(tag_result).found

\* C8: the span taken for resolution is innermost: no other marker opens inside it.
C8_InnermostFirst ==
    \A d \in 1..Len(tag_stack) :
        tag_stack[d].inner_tag # None => ~OpensFrom(tag_stack[d].inner_tag, 3)

---------------------------------------------------------------------------
(* Properties of function_call.                                              *)

\* C10: once every function_call invocation has returned, each handler holds the
\* formatter it held before the first one began.
C10_FormattersRestored ==
    (\A t \in Threads : fc[t].pc = "outside")
        => \A h \in Handlers : handler_formatter[h] = formatter

===========================================================================
